---- MODULE Spec2Model ----
(***************************************************************************)
(* Model of ratelimiter._sync.RateLimiter: a sliding-log rate limiter.     *)
(* Time is an integer clock; the deque `calls` is a sequence, oldest first.*)
(* Each thread walks through __enter__, its protected section and __exit__ *)
(* one lock-delimited step at a time; the clock and the unguarded          *)
(* `consume` setter interleave with every step.                            *)
(***************************************************************************)
EXTENDS Integers, Sequences, FiniteSets

VARIABLES
    constructed,  \* a RateLimiter object exists (__init__ returned)
    ctor_args,    \* arguments of the last __init__ call
    ctor_exc,     \* exception raised by the last __init__ call, "none", or "uncalled"
    period,       \* self.period
    max_calls,    \* self.max_calls
    callback,     \* self.callback: "none" (None) or the behaviour of the callable
    consume,      \* self._consume
    calls,        \* self.calls
    lock,         \* self._lock: the thread holding it, or NoThread
    now,          \* the value time.time() returns
    pc,           \* where each caller thread stands
    until,        \* local `until` of each thread's __enter__
    outcome,      \* how the protected section of each thread ended
    result,       \* what the finished `with` statement / wrapped call delivered
    cbs,          \* the notifier threads started so far
    last_attr,    \* the last consume set / delete: operation, value, exception
    waited,       \* history: the thread's current __enter__ took the over-limit branch
    recorded,     \* history: entries the thread's current __exit__ appended
    fast,         \* history: number of __enter__ calls that found room at once
    evicted,      \* history: some timestamp was popped from calls
    nops,         \* history: number of __enter__ calls started
    nsets         \* history: number of consume set / delete calls

vars == <<constructed, ctor_args, ctor_exc, period, max_calls, callback, consume,
          calls, lock, now, pc, until, outcome, result, cbs, last_attr, waited,
          recorded, fast, evicted, nops, nsets>>

----------------------------------------------------------------------------
(* Bounds of the model *)

MaxTime == 3
MaxOps == 3
MaxSets == 1

\* the caller threads: two are enough for acquire / release pairs to overlap
Threads == {1, 2}
NoThread == 0

PeriodValues == {-1, 0, 2}
MaxCallsValues == {-1, 0, 1, 2, 10}
ConsumeValues == {-1, 0, 1, 5}
CallbackKinds == {"none", "returns", "raises", "hangs"}
ReturnValues == {"r1"}
Exceptions == {"e1"}

\* the constructor calls tried: every rejected combination, every accepted one
\* without a callback, and the callback behaviours on the smallest limiter
CtorInputs ==
    {a \in [max_calls : MaxCallsValues, period : PeriodValues,
            callback : CallbackKinds, consume : ConsumeValues] :
        \/ a.period <= 0 \/ a.max_calls <= 0 \/ a.consume < 1
        \/ a.callback = "none"
        \/ (a.max_calls = 1 /\ a.consume = 1)}

NoAttr == [op |-> "none", arg |-> 0, exc |-> "none"]
NoOutcome == [kind |-> "none", val |-> "none"]
CallbackError == [kind |-> "exc", val |-> "callback"]
Outcomes == {[kind |-> "ret", val |-> v] : v \in ReturnValues}
            \cup {[kind |-> "exc", val |-> e] : e \in Exceptions}

----------------------------------------------------------------------------
(* Pure helpers *)

ValidateInitLax(mc, p, c) ==
    IF p < 0 THEN "ValueError"
    ELSE IF mc <= 0 THEN "ValueError"
    ELSE IF c < 1 THEN "ValueError"
    ELSE "none"

\* __init__'s three checks, in order: the exception raised, or "none"
ValidateInit(mc, p, c) ==
    IF p <= 0 THEN "ValueError"
    ELSE IF mc <= 0 THEN "ValueError"
    ELSE IF c < 1 THEN "ValueError"
    ELSE "none"

\* the _timespan property
Timespan(c) == IF Len(c) > 0 THEN c[Len(c)] - c[1] ELSE 0

CyclesFloor(c, mc) == c \div mc

\* math.ceil(self.consume / self.max_calls) for positive integers
Cycles(c, mc) == (c + mc - 1) \div mc

OverLimitOffByOne(c, w, mc) == Len(c) + w >= mc

OverLimitNoWeight(c, w, mc) == Len(c) > mc

\* the admission test of __enter__
OverLimit(c, w, mc) == Len(c) + w > mc

AdmitAtEarly(t, c, w, mc, p) == t + (Cycles(w, mc) - 1) * p - Timespan(c)

\* until = time.time() + cycles * self.period - self._timespan
AdmitAt(t, c, w, mc, p) == t + Cycles(w, mc) * p - Timespan(c)

\* [ time.time() ] * self.consume
RECURSIVE Repeat(_, _)
Repeat(x, n) == IF n <= 0 THEN <<>> ELSE <<x>> \o Repeat(x, n - 1)

ExtendLeft(c, t, w) == Repeat(t, w) \o c

\* self.calls.extend(timestamps)
Extend(c, t, w) == c \o Repeat(t, w)

RECURSIVE TrimStrict(_, _)
TrimStrict(c, p) == IF Timespan(c) > p THEN TrimStrict(Tail(c), p) ELSE c

TrimOnce(c, p) == IF Timespan(c) >= p THEN Tail(c) ELSE c

\* while self._timespan >= self.period: self.calls.popleft()
RECURSIVE Trim(_, _)
Trim(c, p) == IF Timespan(c) >= p THEN Trim(Tail(c), p) ELSE c

ConsumeSetterLax(old, v) ==
    IF v >= 0 THEN [value |-> v, exc |-> "none"]
    ELSE [value |-> old, exc |-> "ValueError"]

\* the consume setter: the new value of _consume and the exception raised
ConsumeSetter(old, v) ==
    IF v >= 1 THEN [value |-> v, exc |-> "none"]
    ELSE [value |-> old, exc |-> "ValueError"]

\* the consume deleter
ConsumeDeleter(old) == [value |-> old, exc |-> "AttributeError"]

DispatchTwice(threads, cb, u) ==
    IF cb # "none"
    THEN threads \o <<[arg |-> u, st |-> "running"], [arg |-> u, st |-> "running"]>>
    ELSE threads

\* `if self.callback:` followed by the start of a daemon thread on (until,)
Dispatch(threads, cb, u) ==
    IF cb # "none" THEN Append(threads, [arg |-> u, st |-> "running"])
    ELSE threads

InlineCall(cb) ==
    IF cb = "raises" THEN "raise" ELSE IF cb = "hangs" THEN "hang" ELSE "none"

\* what t.start() does to the thread that calls it: it returns at once, whatever
\* the target does ("raise": the target's exception reaches the caller; "hang":
\* the caller is stuck in the target)
StartEffect(cb) == "none"

\* __exit__ returns None, so the with statement re-raises what the body raised
ExitSuppresses == FALSE
WithResult(o) ==
    IF o.kind = "exc" /\ ExitSuppresses THEN [kind |-> "ret", val |-> "none"]
    ELSE o

AfterBodyNoFinally(o) == IF o.kind = "exc" THEN "idle" ELSE "exit_lock"

\* `with self:` runs __exit__ however the body ended
AfterBody(o) == "exit_lock"

----------------------------------------------------------------------------
Init ==
    /\ constructed = FALSE
    /\ ctor_args = [max_calls |-> 1, period |-> 1, callback |-> "none", consume |-> 1]
    /\ ctor_exc = "uncalled"
    /\ period = 0
    /\ max_calls = 0
    /\ callback = "none"
    /\ consume = 0
    /\ calls = <<>>
    /\ lock = NoThread
    /\ now = 0
    /\ pc = [t \in Threads |-> "idle"]
    /\ until = [t \in Threads |-> 0]
    /\ outcome = [t \in Threads |-> NoOutcome]
    /\ result = [t \in Threads |-> NoOutcome]
    /\ cbs = <<>>
    /\ last_attr = NoAttr
    /\ waited = [t \in Threads |-> FALSE]
    /\ recorded = [t \in Threads |-> 0]
    /\ fast = 0
    /\ evicted = FALSE
    /\ nops = 0
    /\ nsets = 0

threadVars == <<pc, until, outcome, result, waited, recorded>>
configVars == <<constructed, ctor_args, ctor_exc, period, max_calls, callback>>
histVars == <<fast, evicted, nops>>

\* RateLimiter(max_calls, period, callback, consume)
Construct ==
    /\ ~constructed
    /\ \E a \in CtorInputs :
          LET mc == a.max_calls
              p == a.period
              cb == a.callback
              c == a.consume
              e == ValidateInit(mc, p, c)
          IN
          /\ ctor_args' = a
          /\ ctor_exc' = e
          /\ IF e = "none"
             THEN /\ constructed' = TRUE
                  /\ calls' = <<>>
                  /\ period' = p
                  /\ max_calls' = mc
                  /\ callback' = cb
                  /\ consume' = ConsumeSetter(consume, c).value
                  /\ lock' = NoThread
             ELSE UNCHANGED <<constructed, calls, period, max_calls, callback,
                              consume, lock>>
    /\ UNCHANGED <<now, cbs, last_attr, nsets>>
    /\ UNCHANGED threadVars
    /\ UNCHANGED histVars

\* the clock advances
Tick ==
    /\ now < MaxTime
    /\ now' = now + 1
    /\ UNCHANGED <<calls, lock, consume, cbs, last_attr, nsets>>
    /\ UNCHANGED threadVars
    /\ UNCHANGED configVars
    /\ UNCHANGED histVars

\* limiter.consume = v, from any thread, at any time
SetConsume ==
    /\ constructed
    /\ nsets < MaxSets
    /\ \E v \in ConsumeValues :
          LET r == ConsumeSetter(consume, v) IN
          /\ consume' = r.value
          /\ last_attr' = [op |-> "set", arg |-> v, exc |-> r.exc]
    /\ nsets' = nsets + 1
    /\ UNCHANGED <<calls, lock, now, cbs>>
    /\ UNCHANGED threadVars
    /\ UNCHANGED configVars
    /\ UNCHANGED histVars

\* del limiter.consume
DelConsume ==
    /\ constructed
    /\ nsets < MaxSets
    /\ LET r == ConsumeDeleter(consume) IN
          /\ consume' = r.value
          /\ last_attr' = [op |-> "del", arg |-> 0, exc |-> r.exc]
    /\ nsets' = nsets + 1
    /\ UNCHANGED <<calls, lock, now, cbs>>
    /\ UNCHANGED threadVars
    /\ UNCHANGED configVars
    /\ UNCHANGED histVars

\* __enter__ is called and asks for the lock
EnterCall(t) ==
    /\ constructed
    /\ pc[t] = "idle"
    /\ nops < MaxOps
    /\ pc' = [pc EXCEPT ![t] = "enter_wait"]
    /\ outcome' = [outcome EXCEPT ![t] = NoOutcome]
    /\ result' = [result EXCEPT ![t] = NoOutcome]
    /\ waited' = [waited EXCEPT ![t] = FALSE]
    /\ recorded' = [recorded EXCEPT ![t] = 0]
    /\ nops' = nops + 1
    /\ UNCHANGED <<calls, lock, now, consume, cbs, last_attr, nsets, until, fast,
                   evicted>>
    /\ UNCHANGED configVars

\* __enter__: `with self._lock:` obtains the lock
EnterLock(t) ==
    /\ pc[t] = "enter_wait"
    /\ lock = NoThread
    /\ lock' = t
    /\ pc' = [pc EXCEPT ![t] = "enter_check"]
    /\ UNCHANGED <<calls, now, consume, cbs, last_attr, nsets, until, outcome, result,
                   waited, recorded>>
    /\ UNCHANGED configVars
    /\ UNCHANGED histVars

\* __enter__: the admission test; with room, the lock is released and self returned
EnterCheck(t) ==
    /\ pc[t] = "enter_check"
    /\ IF OverLimit(calls, consume, max_calls)
       THEN /\ pc' = [pc EXCEPT ![t] = "enter_compute"]
            /\ waited' = [waited EXCEPT ![t] = TRUE]
            /\ UNCHANGED <<lock, fast>>
       ELSE /\ pc' = [pc EXCEPT ![t] = "body"]
            /\ lock' = NoThread
            /\ fast' = fast + 1
            /\ UNCHANGED waited
    /\ UNCHANGED <<calls, now, consume, cbs, last_attr, nsets, until, outcome, result,
                   recorded, evicted, nops>>
    /\ UNCHANGED configVars

\* __enter__: cycles, until and the notifier thread
EnterCompute(t) ==
    /\ pc[t] = "enter_compute"
    /\ LET u == AdmitAt(now, calls, consume, max_calls, period)
           eff == StartEffect(callback)
       IN
          /\ until' = [until EXCEPT ![t] = u]
          /\ cbs' = Dispatch(cbs, callback, u)
          /\ pc' = [pc EXCEPT ![t] =
                       IF eff = "none" THEN "enter_sleep"
                       ELSE IF eff = "raise" THEN "idle"
                       ELSE "in_callback"]
          /\ lock' = IF eff = "raise" THEN NoThread ELSE lock
          /\ result' = [result EXCEPT ![t] =
                           IF eff = "raise" THEN CallbackError ELSE @]
    /\ UNCHANGED <<calls, now, consume, last_attr, nsets, outcome, waited, recorded>>
    /\ UNCHANGED configVars
    /\ UNCHANGED histVars

\* __enter__: sleeptime = until - time.time(); sleep if positive, else return
EnterSleep(t) ==
    /\ pc[t] = "enter_sleep"
    /\ IF until[t] - now > 0
       THEN /\ pc' = [pc EXCEPT ![t] = "sleeping"]
            /\ UNCHANGED lock
       ELSE /\ pc' = [pc EXCEPT ![t] = "body"]
            /\ lock' = NoThread
    /\ UNCHANGED <<calls, now, consume, cbs, last_attr, nsets, until, outcome, result,
                   waited, recorded>>
    /\ UNCHANGED configVars
    /\ UNCHANGED histVars

EnterWakeTrims(t) ==
    /\ pc[t] = "sleeping"
    /\ now >= until[t]
    /\ pc' = [pc EXCEPT ![t] = "body"]
    /\ lock' = NoThread
    /\ LET Young(e) == now - e < period IN calls' = SelectSeq(calls, Young)
    /\ UNCHANGED <<now, consume, cbs, last_attr, nsets, until, outcome, result,
                   waited, recorded>>
    /\ UNCHANGED configVars
    /\ UNCHANGED histVars

\* __enter__: time.sleep returns, the lock is released and self returned
EnterWake(t) ==
    /\ pc[t] = "sleeping"
    /\ now >= until[t]
    /\ pc' = [pc EXCEPT ![t] = "body"]
    /\ lock' = NoThread
    /\ UNCHANGED <<calls, now, consume, cbs, last_attr, nsets, until, outcome, result,
                   waited, recorded>>
    /\ UNCHANGED configVars
    /\ UNCHANGED histVars

\* the protected section (the wrapped callable) returns or raises
Body(t) ==
    /\ pc[t] = "body"
    /\ \E o \in Outcomes :
          /\ outcome' = [outcome EXCEPT ![t] = o]
          /\ pc' = [pc EXCEPT ![t] = AfterBody(o)]
          /\ result' = [result EXCEPT ![t] =
                           IF AfterBody(o) = "idle" THEN o ELSE NoOutcome]
    /\ UNCHANGED <<calls, lock, now, consume, cbs, last_attr, nsets, until, waited,
                   recorded>>
    /\ UNCHANGED configVars
    /\ UNCHANGED histVars

\* __exit__: `with self._lock:` obtains the lock
ExitLock(t) ==
    /\ pc[t] = "exit_lock"
    /\ lock = NoThread
    /\ lock' = t
    /\ pc' = [pc EXCEPT ![t] = "exit_append"]
    /\ UNCHANGED <<calls, now, consume, cbs, last_attr, nsets, until, outcome, result,
                   waited, recorded>>
    /\ UNCHANGED configVars
    /\ UNCHANGED histVars

\* __exit__: consume copies of the current time are appended
ExitAppend(t) ==
    /\ pc[t] = "exit_append"
    /\ calls' = Extend(calls, now, consume)
    /\ recorded' = [recorded EXCEPT ![t] = consume]
    /\ pc' = [pc EXCEPT ![t] = "exit_trim"]
    /\ UNCHANGED <<lock, now, consume, cbs, last_attr, nsets, until, outcome, result,
                   waited>>
    /\ UNCHANGED configVars
    /\ UNCHANGED histVars

\* __exit__: the trim loop, the release of the lock and the end of the with statement
ExitTrim(t) ==
    /\ pc[t] = "exit_trim"
    /\ calls' = Trim(calls, period)
    /\ evicted' = (evicted \/ Len(Trim(calls, period)) < Len(calls))
    /\ lock' = NoThread
    /\ pc' = [pc EXCEPT ![t] = "idle"]
    /\ result' = [result EXCEPT ![t] = WithResult(outcome[t])]
    /\ until' = [until EXCEPT ![t] = 0]
    /\ waited' = [waited EXCEPT ![t] = FALSE]
    /\ UNCHANGED <<now, consume, cbs, last_attr, nsets, outcome, recorded, fast, nops>>
    /\ UNCHANGED configVars

\* a notifier thread runs the callback to its end
CallbackRun ==
    /\ \E i \in 1..Len(cbs) :
          /\ cbs[i].st = "running"
          /\ callback \in {"returns", "raises"}
          /\ cbs' = [cbs EXCEPT ![i].st =
                        IF callback = "raises" THEN "raised" ELSE "returned"]
    /\ UNCHANGED <<calls, lock, now, consume, last_attr, nsets>>
    /\ UNCHANGED threadVars
    /\ UNCHANGED configVars
    /\ UNCHANGED histVars

ThreadStep(t) ==
    \/ EnterCall(t)
    \/ EnterLock(t)
    \/ EnterCheck(t)
    \/ EnterCompute(t)
    \/ EnterSleep(t)
    \/ EnterWake(t)
    \/ Body(t)
    \/ ExitLock(t)
    \/ ExitAppend(t)
    \/ ExitTrim(t)

Next ==
    \/ Construct
    \/ Tick
    \/ SetConsume
    \/ DelConsume
    \/ CallbackRun
    \/ \E t \in Threads : ThreadStep(t)

Spec == Init /\ [][Next]_vars

\* one caller: acquire / release pairs never overlap
NextSingle ==
    \/ Construct
    \/ Tick
    \/ SetConsume
    \/ DelConsume
    \/ CallbackRun
    \/ ThreadStep(1)

SpecSingle == Init /\ [][NextSingle]_vars

\* limiters whose weight is below, equal to and above their capacity
WeightedInputs ==
    [max_calls : {2, 10}, period : {1, 2}, callback : {"none"}, consume : {1, 5, 15}]

\* the state right after RateLimiter(max_calls, period, None, consume) returned
InitWeighted ==
    \E a \in WeightedInputs :
        /\ ValidateInit(a.max_calls, a.period, a.consume) = "none"
        /\ constructed = TRUE
        /\ ctor_args = a
        /\ ctor_exc = "none"
        /\ period = a.period
        /\ max_calls = a.max_calls
        /\ callback = a.callback
        /\ consume = ConsumeSetter(0, a.consume).value
        /\ calls = <<>>
        /\ lock = NoThread
        /\ now = 0
        /\ pc = [t \in Threads |-> "idle"]
        /\ until = [t \in Threads |-> 0]
        /\ outcome = [t \in Threads |-> NoOutcome]
        /\ result = [t \in Threads |-> NoOutcome]
        /\ cbs = <<>>
        /\ last_attr = NoAttr
        /\ waited = [t \in Threads |-> FALSE]
        /\ recorded = [t \in Threads |-> 0]
        /\ fast = 0
        /\ evicted = FALSE
        /\ nops = 0
        /\ nsets = 0

\* the callers and the clock on a limiter whose settings stay as constructed
NextWeighted ==
    \/ Tick
    \/ \E t \in Threads : ThreadStep(t)

SpecWeighted == InitWeighted /\ [][NextWeighted]_vars

\* what the scheduler owes a caller: a step of __enter__ or __exit__ that can run
\* does run, and a caller that asks for the lock gets it if it keeps becoming
\* free. Nothing makes a caller call, the protected section end, or the
\* settings change.
LockedStep(t) ==
    \/ EnterCheck(t)
    \/ EnterCompute(t)
    \/ EnterSleep(t)
    \/ EnterWake(t)
    \/ ExitAppend(t)
    \/ ExitTrim(t)

\* limiters for the progress check, with a notifier that never returns
FairInputs ==
    [max_calls : {1, 2}, period : {2}, callback : {"hangs"}, consume : {1}]

\* the state right after RateLimiter(max_calls, period, callback, consume) returned
InitFair ==
    \E a \in FairInputs :
        /\ ValidateInit(a.max_calls, a.period, a.consume) = "none"
        /\ constructed = TRUE
        /\ ctor_args = a
        /\ ctor_exc = "none"
        /\ period = a.period
        /\ max_calls = a.max_calls
        /\ callback = a.callback
        /\ consume = ConsumeSetter(0, a.consume).value
        /\ calls = <<>>
        /\ lock = NoThread
        /\ now = 0
        /\ pc = [t \in Threads |-> "idle"]
        /\ until = [t \in Threads |-> 0]
        /\ outcome = [t \in Threads |-> NoOutcome]
        /\ result = [t \in Threads |-> NoOutcome]
        /\ cbs = <<>>
        /\ last_attr = NoAttr
        /\ waited = [t \in Threads |-> FALSE]
        /\ recorded = [t \in Threads |-> 0]
        /\ fast = 0
        /\ evicted = FALSE
        /\ nops = 0
        /\ nsets = 0

\* the callers, the clock and the weight setter
NextFair ==
    \/ Tick
    \/ SetConsume
    \/ \E t \in Threads : ThreadStep(t)

\* fair scheduling and finite waits: the clock keeps advancing
FairSpec ==
    /\ InitFair
    /\ [][NextFair]_vars
    /\ WF_vars(Tick)
    /\ \A t \in Threads :
          /\ WF_vars(LockedStep(t))
          /\ SF_vars(EnterLock(t))
          /\ SF_vars(ExitLock(t))

----------------------------------------------------------------------------
(* Properties *)

\* no __exit__ is between its append and the end of its trim loop
NoReleaseInProgress == \A t \in Threads : pc[t] # "exit_trim"

\* the limiter was built with weight w and the weight was never reassigned
FixedWeight(w) == constructed /\ ctor_args.consume = w /\ consume = w /\ nsets = 0

\* C1: on a limiter with capacity N and weight 1, started with an empty log, the
\* log never holds more than N entries once a release has completed, for any
\* number of callers and any interleaving.
C1_LogWithinCapacity ==
    (FixedWeight(1) /\ NoReleaseInProgress) => Len(calls) <= max_calls

\* C2: a caller waiting inside __enter__ for its admission time does not hold the
\* lock, so a caller that has finished its protected section can enter __exit__.
C2_WaitWithoutGuard ==
    \A t \in Threads :
        pc[t] = "sleeping" =>
            /\ lock # t
            /\ \A u \in Threads : pc[u] = "exit_lock" => ENABLED ExitLock(u)

\* C3: on a limiter with capacity 10 and weight 5, started with an empty log, as
\* long as no entry has been evicted at most 2 calls of __enter__ return without
\* taking the waiting branch.
C3_AtMostTwoFast ==
    (FixedWeight(5) /\ max_calls = 10 /\ ~evicted) => fast <= 2

\* the next-to-run call is number N+1 on a limiter of capacity N and weight 1,
\* and the N calls before it all released at the same instant calls[1]
BackToBack ==
    /\ FixedWeight(1)
    /\ nops = max_calls + 1
    /\ Len(calls) = max_calls
    /\ calls[1] = calls[Len(calls)]

\* C4: one caller, capacity N, weight 1, empty log at the start: the first N
\* calls of __enter__ do not wait; call N+1, made at the instant t0 at which the
\* N calls before it released, uses cycles = 1 and until = t0 + period, and its
\* protected section does not start before t0 + period.
C4_BackToBackCalls ==
    /\ (FixedWeight(1) /\ nops <= max_calls) => ~waited[1]
    /\ (BackToBack /\ pc[1] \in {"enter_compute", "enter_sleep", "sleeping", "body"})
          => waited[1]
    /\ (BackToBack /\ pc[1] = "enter_sleep" /\ now = calls[1])
          => (Cycles(consume, max_calls) = 1 /\ until[1] = calls[1] + period)
    /\ (BackToBack /\ pc[1] \in {"enter_sleep", "sleeping", "body"})
          => until[1] >= calls[1] + period
    /\ (BackToBack /\ pc[1] = "body") => now >= calls[1] + period

C4_Witness ==
    /\ BackToBack
    /\ max_calls = 2
    /\ calls = <<0, 0>>
    /\ pc[1] = "body"
    /\ until[1] = 2
    /\ now = 2

\* C5: a wrapped call runs __enter__, the callable, __exit__: when the call is
\* over the caller has received exactly what the callable returned or raised,
\* __exit__ has appended its entries (all stamped with one clock value) and the
\* lock is free of the caller, also when the callable raised.
C5_DecoratorPropagates ==
    \A t \in Threads :
        /\ (pc[t] = "idle" /\ outcome[t].kind # "none")
              => (result[t] = outcome[t] /\ recorded[t] >= 1 /\ lock # t)
        /\ result[t].kind # "none" => (pc[t] = "idle" /\ result[t] = outcome[t])
        /\ pc[t] = "exit_trim"
              => /\ recorded[t] >= 1
                 /\ Len(calls) >= recorded[t]
                 /\ \A i \in (Len(calls) - recorded[t] + 1)..Len(calls) :
                       calls[i] = calls[Len(calls)]

C5_Witness ==
    \E t \in Threads :
        /\ pc[t] = "idle"
        /\ outcome[t].kind = "exc"
        /\ result[t] = outcome[t]
        /\ recorded[t] = 5
        /\ Len(calls) >= 5
        /\ lock = NoThread

\* the arguments of the last constructor call are outside the accepted range
BadCtorArgs ==
    ctor_args.period <= 0 \/ ctor_args.max_calls <= 0 \/ ctor_args.consume < 1

\* C6: the constructor raises ValueError, and builds nothing, exactly when
\* period <= 0, max_calls <= 0 or consume < 1, whatever the other arguments are;
\* otherwise it builds a limiter with the given settings and an empty log.
C6_ConstructorValidation ==
    /\ ctor_exc = "uncalled" => ~constructed
    /\ ctor_exc # "uncalled" =>
          /\ BadCtorArgs => (ctor_exc = "ValueError" /\ ~constructed)
          /\ ~BadCtorArgs => (ctor_exc = "none" /\ constructed)
    /\ (constructed /\ nops = 0) => calls = <<>>
    /\ constructed =>
          /\ period = ctor_args.period
          /\ max_calls = ctor_args.max_calls
          /\ (nsets = 0 => consume = ctor_args.consume)

C6_Witness ==
    /\ ~constructed
    /\ ctor_exc = "ValueError"
    /\ ctor_args.period = 0
    /\ ctor_args.max_calls = 10
    /\ ctor_args.consume = 5

\* C7: every set or delete of consume leaves the log as it is; a set to v >= 1
\* makes v the weight and raises nothing; a set to v < 1 raises ValueError and a
\* delete raises AttributeError, both leaving the weight as it is.
C7_ConsumeProperty ==
    [][nsets' # nsets =>
          /\ calls' = calls
          /\ (last_attr'.op = "set" /\ last_attr'.arg >= 1)
                => (consume' = last_attr'.arg /\ last_attr'.exc = "none")
          /\ (last_attr'.op = "set" /\ last_attr'.arg < 1)
                => (consume' = consume /\ last_attr'.exc = "ValueError")
          /\ last_attr'.op = "del"
                => (consume' = consume /\ last_attr'.exc = "AttributeError")
          /\ last_attr'.op \in {"set", "del"}]_vars

C7_Witness ==
    /\ last_attr = [op |-> "set", arg |-> 5, exc |-> "none"]
    /\ ctor_args.consume = 1
    /\ consume = 5
    /\ calls = <<0, 1, 1, 1, 1, 1>>
    /\ \E t \in Threads : pc[t] = "exit_trim" /\ recorded[t] = 5

\* calls of __enter__ that took the waiting branch and have computed `until`
Decided ==
    nops - fast - Cardinality({t \in Threads :
                               pc[t] \in {"enter_wait", "enter_check", "enter_compute"}})

\* C8: with a callback configured, one notifier thread is started for each call
\* of __enter__ that takes the waiting branch and none for a call that finds
\* room, and its argument is the `until` the caller then sleeps for.
C8_NotifierOncePerWait ==
    (constructed /\ callback # "none") =>
        /\ Len(cbs) = Decided
        /\ \A t \in Threads :
              pc[t] \in {"enter_sleep", "sleeping"} => cbs[Len(cbs)].arg = until[t]

C8_Witness ==
    /\ callback # "none"
    /\ fast = 1
    /\ Len(cbs) = 1
    /\ \E t \in Threads : pc[t] = "sleeping" /\ cbs[1].arg = until[t] /\ until[t] = 2

\* C9: a callback that raises or never returns leaves the limiter intact: no
\* __enter__ raises or is stuck in the callback, the thread holding the lock can
\* always take its next step unless it is sleeping towards its own `until`, and
\* the lock is free again once __enter__ has returned.
C9_NotifierIsolated ==
    callback \in {"raises", "hangs"} =>
        \A t \in Threads :
            /\ pc[t] # "in_callback"
            /\ result[t] # CallbackError
            /\ lock = t => (ENABLED ThreadStep(t) \/ (pc[t] = "sleeping" /\ now < until[t]))
            /\ pc[t] \in {"body", "exit_lock", "idle"} => lock # t

C9_Witness ==
    /\ callback = "hangs"
    /\ Len(cbs) >= 1
    /\ cbs[1].st = "running"
    /\ lock = NoThread
    /\ \A t \in Threads : pc[t] = "idle" /\ result[t].kind # "none"

\* C10: whenever no __exit__ stands between its append and the end of its trim
\* loop, in particular after every completed release, newest minus oldest log
\* entry is strictly less than period (0 for an empty log).
C10_SpanBelowPeriod ==
    (constructed /\ NoReleaseInProgress) => Timespan(calls) < period

C10_Witness ==
    /\ evicted
    /\ NoReleaseInProgress
    /\ Len(calls) >= 2
    /\ Timespan(calls) = period - 1

\* C11: the log is sorted non-decreasing, oldest first, in every reachable state.
C11_LogSorted ==
    \A i \in 1..Len(calls) : \A j \in i..Len(calls) : calls[i] <= calls[j]

C11_Witness ==
    /\ Len(calls) = 3
    /\ calls[1] < calls[2]
    /\ calls[2] < calls[3]
    /\ \E t \in Threads : pc[t] = "exit_trim"

\* C12: __enter__ tests admission once, holding the lock: with room it returns
\* at that instant; otherwise it computes an `until` strictly later than the
\* clock value it read, stays in __enter__ until the clock has reached it, and
\* then returns with the log untouched and no second test, whatever the test
\* would say then.
C12_SingleAdmissionTest ==
    [][\A t \in Threads :
          /\ pc[t] = "enter_check" => lock = t
          /\ (pc[t] = "enter_check" /\ pc'[t] # "enter_check") =>
                /\ now' = now
                /\ IF Len(calls) + consume <= max_calls
                   THEN pc'[t] = "body" /\ ~waited'[t]
                   ELSE pc'[t] = "enter_compute" /\ waited'[t]
          /\ (pc[t] = "enter_compute" /\ pc'[t] # "enter_compute") =>
                (pc'[t] = "enter_sleep" /\ until'[t] > now)
          /\ (pc[t] \in {"enter_sleep", "sleeping"} /\ pc'[t] # pc[t]) =>
                /\ pc'[t] \in {"sleeping", "body"}
                /\ calls' = calls
                /\ pc'[t] = "body" => now >= until[t]
          /\ (pc[t] # "body" /\ pc'[t] = "body") =>
                pc[t] \in {"enter_check", "enter_sleep", "sleeping"}]_vars

C12_Witness ==
    \E t \in Threads :
        /\ pc[t] = "body"
        /\ waited[t]
        /\ now >= until[t]
        /\ Len(calls) + consume > max_calls
        /\ nsets = 0

\* the least k >= 1 with k * mc >= w: the ceiling of w / mc
CeilDiv(w, mc) == CHOOSE k \in 1..w : k * mc >= w /\ (k - 1) * mc < w

\* C13: a waiting __enter__ sets until = now + ceil(consume / max_calls) * period
\* - span, where span is newest minus oldest log entry and 0 for an empty log;
\* the factor is 1 when consume <= max_calls and 2 for consume = 15 and
\* max_calls = 10, where every call of __enter__, the first one included, takes
\* the waiting branch and does not return before until.
C13_AdmitAtFormula ==
    [][\A t \in Threads :
          /\ (pc[t] = "enter_compute" /\ pc'[t] = "enter_sleep") =>
                LET span == IF Len(calls) = 0 THEN 0 ELSE calls[Len(calls)] - calls[1]
                    k == CeilDiv(consume, max_calls)
                IN  /\ until'[t] = now + k * period - span
                    /\ consume <= max_calls => k = 1
                    /\ (consume = 15 /\ max_calls = 10) =>
                          (k = 2 /\ until'[t] = now + 2 * period - span)
          /\ (consume = 15 /\ max_calls = 10 /\ pc[t] = "enter_check"
                /\ pc'[t] # "enter_check") => pc'[t] = "enter_compute"
          /\ (waited[t] /\ pc[t] # "body" /\ pc'[t] = "body") => now >= until[t]]_vars

C13_Witness ==
    /\ consume = 15
    /\ max_calls = 10
    /\ Len(calls) = 15
    /\ \E t \in Threads :
          /\ pc[t] = "sleeping"
          /\ until[t] = now + 2 * period

\* C14: __exit__ appends exactly consume entries, all equal to the current time,
\* at the tail, then removes exactly the entries e with newest - e >= period:
\* the entries just appended stay and the log is not empty after a release.
C14_AppendThenTrim ==
    [][\A t \in Threads :
          /\ (pc[t] = "exit_append" /\ pc'[t] = "exit_trim") =>
                /\ Len(calls') = Len(calls) + consume
                /\ SubSeq(calls', 1, Len(calls)) = calls
                /\ \A i \in (Len(calls) + 1)..Len(calls') : calls'[i] = now
          /\ (pc[t] = "exit_trim" /\ pc'[t] = "idle") =>
                LET newest == calls[Len(calls)]
                    Keep(e) == newest - e < period
                IN  /\ calls' = SelectSeq(calls, Keep)
                    /\ calls' # <<>>
                    /\ Len(calls') >= recorded[t]
                    /\ \A i \in 1..recorded[t] :
                          calls'[Len(calls') + 1 - i] = calls[Len(calls) + 1 - i]]_vars

C14_Witness ==
    /\ evicted
    /\ calls = <<1, 2, 2, 2, 2, 2>>
    /\ \A t \in Threads : pc[t] = "idle"

\* C15: the weight is written only by a caller that holds the lock, so no write
\* lands while another caller holds it; in particular the weight does not change
\* between the admission test of an __enter__ and its computation of cycles.
C15_WeightUnderGuard ==
    [][constructed =>
          /\ consume' # consume => lock = NoThread
          /\ \A t \in Threads :
                (pc[t] = "enter_compute" /\ pc'[t] = "enter_compute")
                    => consume' = consume]_vars

\* C16: no step of __enter__ changes the log; the log changes only in a step of
\* an __exit__ that holds the lock.
C16_LogChangesOnlyInExit ==
    [][calls' # calls =>
          \E t \in Threads :
              /\ pc[t] \in {"exit_append", "exit_trim"}
              /\ pc'[t] # pc[t]
              /\ lock = t]_vars

C16_Witness ==
    \E t \in Threads :
        /\ pc[t] = "body"
        /\ waited[t]
        /\ calls # <<>>
        /\ now - calls[1] >= period

\* C17: with consume <= max_calls, an __enter__ whose admission test runs when
\* every log entry is at least period older than the clock returns without
\* taking the waiting branch.
C17_NoDelayOutsideWindow ==
    [][\A t \in Threads :
          (/\ pc[t] = "enter_check"
           /\ pc'[t] # "enter_check"
           /\ consume <= max_calls
           /\ \A i \in 1..Len(calls) : now - calls[i] >= period)
              => pc'[t] = "body"]_vars

\* C18: a waiting __enter__ sets until at least period later than the oldest
\* log entry it sees; the __exit__ that follows it leaves only entries younger
\* than until - period, hence none as old as that oldest entry.
C18_WaitOutlivesOldest ==
    [][\A t \in Threads :
          /\ (pc[t] = "enter_compute" /\ pc'[t] = "enter_sleep" /\ calls # <<>>)
                => until'[t] >= calls[1] + period
          /\ (pc[t] = "exit_trim" /\ pc'[t] = "idle" /\ waited[t])
                => \A i \in 1..Len(calls') : calls'[i] > until[t] - period]_vars

C18_Witness ==
    \E t \in Threads :
        /\ pc[t] = "exit_trim"
        /\ waited[t]
        /\ Len(calls) >= 2
        /\ calls[1] = until[t] - period
        /\ calls[Len(calls)] = until[t]

\* C19: with one caller and a weight that stays at its constructed value
\* w <= max_calls, the log holds at most max_calls entries after every release.
C19_SingleCallerWithinCapacity ==
    (constructed /\ nsets = 0 /\ consume <= max_calls /\ NoReleaseInProgress)
        => Len(calls) <= max_calls

C19_Witness ==
    /\ FixedWeight(5)
    /\ max_calls = 10
    /\ evicted
    /\ Len(calls) = 10
    /\ nops = 3
    /\ pc[1] = "idle"

AcquireStates ==
    {"enter_wait", "enter_check", "enter_compute", "enter_sleep", "sleeping",
     "in_callback"}

ReleaseStates == {"exit_lock", "exit_append", "exit_trim"}

\* a sleep that ends after the last instant of the modelled clock
BeyondClock ==
    \E u \in Threads : pc[u] \in {"enter_sleep", "sleeping"} /\ until[u] > MaxTime

\* C20: under fair scheduling every __enter__ that was called returns and every
\* __exit__ that was called completes, unless a sleep outlasts the clock; the
\* lock is held only by a caller inside __enter__ or __exit__, so it is free
\* whenever no call is in progress.
C20_EveryCallReturns ==
    /\ \A t \in Threads :
          /\ (pc[t] \in AcquireStates) ~> (pc[t] = "body" \/ BeyondClock)
          /\ (pc[t] \in ReleaseStates) ~> (pc[t] = "idle" \/ BeyondClock)
    /\ [](lock # NoThread =>
             pc[lock] \in (AcquireStates \cup ReleaseStates) \ {"enter_wait", "exit_lock"})

C20_Witness ==
    \E t, u \in Threads :
        /\ pc[t] = "exit_trim"
        /\ waited[t]
        /\ pc[u] = "enter_wait"
        /\ ~BeyondClock
        /\ callback = "hangs"

====
